---- MODULE Spec2Model ----
(***************************************************************************)
(* Flare worker: the execution dispatcher.                                 *)
(*   flare-worker/src/index.ts            fetch (auth gate, routing)       *)
(*   flare-worker/src/routes/execute.ts   handleExecute, validateApiKey    *)
(*   routes/executeBatch.ts               chunk, executeItem,              *)
(*                                        handleExecuteBatch               *)
(*                                                                         *)
(* A JavaScript string is a sequence of tokens; the two sentinel markers   *)
(* and the newline are one token each.  An optional field is the empty     *)
(* tuple when absent and the one-element tuple <<v>> when present.         *)
(***************************************************************************)
EXTENDS Integers, Sequences, FiniteSets, TLC

\* ------------------------------------------------------------------ bounds
MaxItems == 3          \* longest items array of a batch request
MaxContainers == 2     \* largest positive max_containers a request carries
MaxLines == 2          \* most entries of logs.stdout, and of logs.stderr
MaxLen == 5            \* most tokens of logs.stdout and logs.stderr together

\* --------------------------------------------------------- program constants
DefaultMaxContainers == 10

\* ------------------------------------------------------------ option values
Absent == <<>>
Some(v) == <<v>>
Str(tok) == <<tok>>

RESULT_MARKER == "__FLARE_RESULT__"
ERROR_MARKER == "__FLARE_ERROR__"
NL == "\n"

\* JavaScript truthiness of an optional string: undefined and "" are falsy.
Truthy(opt) == opt # Absent /\ opt[1] # <<>>

\* lines.join("\n")
RECURSIVE Join(_)
Join(lines) ==
  IF lines = <<>> THEN <<>>
  ELSE IF Len(lines) = 1 THEN lines[1]
  ELSE lines[1] \o <<NL>> \o Join(Tail(lines))

\* result.logs?.stdout?.join("\n") || ""
JoinOrEmpty(optLines) == IF optLines = Absent THEN <<>> ELSE Join(optLines[1])

\* s.includes(marker)
Includes(s, marker) == \E i \in 1..Len(s) : s[i] = marker

\* The pairs (i, j) at which /marker(.*)marker/ can match: '.' matches any
\* token but the newline.
MatchPairs(s, marker) ==
  {p \in (1..Len(s)) \X (1..Len(s)) :
     /\ p[1] < p[2]
     /\ s[p[1]] = marker
     /\ s[p[2]] = marker
     /\ \A k \in (p[1] + 1)..(p[2] - 1) : s[k] # NL}

Min(S) == CHOOSE x \in S : \A y \in S : x <= y
Max(S) == CHOOSE x \in S : \A y \in S : x >= y

\* s.match(/marker(.*)marker/): leftmost start, then the greedy (longest)
\* group; Absent when there is no match, else Some(group 1).
Match(s, marker) ==
  LET P == MatchPairs(s, marker) IN
  IF P = {} THEN Absent
  ELSE LET i == Min({p[1] : p \in P})
           j == Max({p[2] : p \in {q \in P : q[1] = i}})
       IN Some(SubSeq(s, i + 1, j - 1))

\* error instanceof Error ? error.message : fallback
ErrorMessage(thrown, fallback) ==
  IF thrown.isError THEN thrown.message ELSE fallback

\* Date.now() / new Date().toISOString(): the value is not modelled, only
\* that the field is populated.
Timestamp == Some(Str("ts"))

\* ------------------------------------------ executeItem: outcome of one run
Outcome(success, result, error, stdout, stderr, sandboxId) ==
  [success |-> success, result |-> result, error |-> error,
   stdout |-> stdout, stderr |-> stderr,
   execution_time_ms |-> Timestamp, sandbox_id |-> Some(sandboxId),
   started_at |-> Timestamp, completed_at |-> Timestamp]

\* the parse looking at stdout before the error sentinel of stderr
ExecuteItemParseStdoutFirst(result, sandboxId) ==
  LET stdout == JoinOrEmpty(result.stdout)
      stderr == JoinOrEmpty(result.stderr)
      errorMatch == Match(stderr, ERROR_MARKER)
      resultMatch == Match(stdout, RESULT_MARKER)
  IN IF Truthy(result.error)
     THEN Outcome(FALSE, Absent, result.error, Absent, Some(stderr), sandboxId)
     ELSE IF resultMatch # Absent
     THEN Outcome(TRUE, resultMatch, Absent, Some(stdout), Some(stderr),
                  sandboxId)
     ELSE IF Includes(stderr, ERROR_MARKER)
     THEN Outcome(FALSE, Absent,
                  IF errorMatch # Absent THEN errorMatch
                                          ELSE Some(Str("Unknown error")),
                  Absent, Some(stderr), sandboxId)
     ELSE Outcome(FALSE, Absent,
                  Some(Str("Failed to extract result from output")),
                  Some(stdout), Some(stderr), sandboxId)

\* executeItem, lines 85-149: parse the value runCode resolved with.
ExecuteItemParse(result, sandboxId) ==
  LET stdout == JoinOrEmpty(result.stdout)
      stderr == JoinOrEmpty(result.stderr)
      errorMatch == Match(stderr, ERROR_MARKER)
      resultMatch == Match(stdout, RESULT_MARKER)
  IN IF Truthy(result.error)
     THEN Outcome(FALSE, Absent, result.error, Absent, Some(stderr), sandboxId)
     ELSE IF Includes(stderr, ERROR_MARKER)
     THEN Outcome(FALSE, Absent,
                  IF errorMatch # Absent THEN errorMatch
                                          ELSE Some(Str("Unknown error")),
                  Absent, Some(stderr), sandboxId)
     ELSE IF resultMatch = Absent
     THEN Outcome(FALSE, Absent,
                  Some(Str("Failed to extract result from output")),
                  Some(stdout), Some(stderr), sandboxId)
     ELSE Outcome(TRUE, resultMatch, Absent, Some(stdout), Some(stderr),
                  sandboxId)

\* the catch block reporting the thrown value as the result
ExecuteItemCatchAsResult(thrown, sandboxId) ==
  Outcome(FALSE, Some(ErrorMessage(thrown, Str("Execution failed"))), Absent,
          Absent, Absent, sandboxId)

\* executeItem, lines 150-160: the catch block.
ExecuteItemCatch(thrown, sandboxId) ==
  Outcome(FALSE, Absent, Some(ErrorMessage(thrown, Str("Execution failed"))),
          Absent, Absent, sandboxId)

\* ------------------------------------------------ handleExecute: responses
Response(status, body) == [status |-> status, body |-> body]

ErrorBody(error, stdout, stderr) ==
  [success |-> FALSE, result |-> Absent, error |-> error,
   stdout |-> stdout, stderr |-> stderr,
   execution_time_ms |-> Absent, sandbox_id |-> Absent,
   started_at |-> Absent, completed_at |-> Absent]

\* the parse leaving stdout out of the missing-marker response
HandleExecuteParseNoStdout(result, sandboxIdStr) ==
  LET stdout == JoinOrEmpty(result.stdout)
      stderr == JoinOrEmpty(result.stderr)
      errorMatch == Match(stderr, ERROR_MARKER)
      resultMatch == Match(stdout, RESULT_MARKER)
  IN IF Truthy(result.error)
     THEN Response(500, ErrorBody(result.error, Absent, Some(stderr)))
     ELSE IF Includes(stderr, ERROR_MARKER)
     THEN Response(500, ErrorBody(
                  IF errorMatch # Absent THEN errorMatch
                                          ELSE Some(Str("Unknown error")),
                  Absent, Some(stderr)))
     ELSE IF resultMatch = Absent
     THEN Response(500, ErrorBody(
                  Some(Str("Failed to extract result from output")),
                  Absent, Some(stderr)))
     ELSE Response(200, Outcome(TRUE, resultMatch, Absent, Some(stdout),
                                Some(stderr), sandboxIdStr))

\* handleExecute, lines 94-160: parse the value runCode resolved with.
HandleExecuteParse(result, sandboxIdStr) ==
  LET stdout == JoinOrEmpty(result.stdout)
      stderr == JoinOrEmpty(result.stderr)
      errorMatch == Match(stderr, ERROR_MARKER)
      resultMatch == Match(stdout, RESULT_MARKER)
  IN IF Truthy(result.error)
     THEN Response(500, ErrorBody(result.error, Absent, Some(stderr)))
     ELSE IF Includes(stderr, ERROR_MARKER)
     THEN Response(500, ErrorBody(
                  IF errorMatch # Absent THEN errorMatch
                                          ELSE Some(Str("Unknown error")),
                  Absent, Some(stderr)))
     ELSE IF resultMatch = Absent
     THEN Response(500, ErrorBody(
                  Some(Str("Failed to extract result from output")),
                  Some(stdout), Some(stderr)))
     ELSE Response(200, Outcome(TRUE, resultMatch, Absent, Some(stdout),
                                Some(stderr), sandboxIdStr))

\* the catch block answering with status 200
HandleExecuteCatchOk(thrown) ==
  Response(200, ErrorBody(Some(ErrorMessage(thrown, Str("Execution failed"))),
                          Absent, Absent))

\* handleExecute, lines 161-172: the catch block.
HandleExecuteCatch(thrown) ==
  Response(500, ErrorBody(Some(ErrorMessage(thrown, Str("Execution failed"))),
                          Absent, Absent))

\* ------------------------------------------------------------------ inputs
HexItems == <<"01", "02", "03", "04", "05", "06", "07", "08">>
Prefix8 == {"aaaaaaaa", "bbbbbbbb"}

\* The items arrays: pairwise distinct payloads, so that an outcome can be
\* traced to its item.
ItemArrays == {[i \in 1..n |-> HexItems[i]] : n \in 0..MaxItems}

OptStr(tok) == {Absent, Some(Str(tok))}

Bodies ==
  [function_id : OptStr("fn"), code : OptStr("def f(item): ..."),
   function_name : OptStr("f"),
   items : {Absent} \cup {Some(a) : a \in ItemArrays},
   max_containers : {Absent} \cup {Some(n) : n \in {-1} \cup 1..MaxContainers}]
  \cup
  \* max_containers: 0, with at most one item
  [function_id : {Some(Str("fn"))}, code : {Some(Str("def f(item): ..."))},
   function_name : {Some(Str("f"))},
   items : {Some(a) : a \in {b \in ItemArrays : Len(b) <= 1}},
   max_containers : {Some(0)}]

API_KEY == "sk_good"

\* The body text "null": request.json() resolves with null.
JsonNull == [null |-> TRUE]

\* json is Absent when request.json() rejects.
Requests ==
  [method : {"POST", "GET", "OPTIONS"},
   pathname : {"/execute", "/execute-batch", "/health"},
   Authorization : {Absent, <<"Bearer ">>, <<"Bearer ", "sk_good">>,
                    <<"Bearer ", "sk_bad">>},
   json : {Absent, Some(JsonNull)} \cup {Some(b) : b \in Bodies}]

RunValue(error, stdout, stderr) ==
  [error |-> error, stdout |-> stdout, stderr |-> stderr]

\* What the script leaves in the logs for an item.  The user function is
\* fixed by the request: it returns its argument, except that it raises
\* ValueError("bad") on "02" (after printing what looks like a result) and
\* ends the process before the wrapper prints on "03".
UserRun(itemHex) ==
  IF itemHex = "02"
  THEN RunValue(Absent,
                Some(<< <<RESULT_MARKER, itemHex, RESULT_MARKER>> >>),
                Some(<< <<ERROR_MARKER, "bad", ERROR_MARKER>>, Str("trace") >>))
  ELSE IF itemHex = "03"
  THEN RunValue(Absent, Some(<<Str("a")>>), Absent)
  ELSE RunValue(Absent,
                Some(<< <<RESULT_MARKER, itemHex, RESULT_MARKER>> >>), Absent)

\* What runCode can resolve with for one item: a runtime-reported error
\* (the timeout), or the logs of the script.
RunValues(itemHex) ==
  { RunValue(Some(Str("timeout")), Absent, Some(<<Str("a")>>)),
    UserRun(itemHex) }

\* What a runtime call can throw: an Error with a message, or another value.
Thrown == { [isError |-> TRUE, message |-> Str("boom")],
            [isError |-> FALSE, message |-> <<>>] }

\* What runCode throws inside executeItem: an Error (a value that is no
\* Error takes the same path with the fallback message, as in handleExecute).
RunThrown == {thrown \in Thrown : thrown.isError}

\* crypto.randomUUID(): an 8-character prefix and the rest.  The n-th call
\* returns a value no other call returns (the rest is its own); the prefix
\* is any of the prefixes.  The prefixes are interchangeable, so the one of
\* the first call is named "aaaaaaaa".
UuidRest == <<"-0001", "-0002", "-0003", "-0004", "-0005", "-0006", "-0007",
              "-0008", "-0009", "-0010", "-0011", "-0012">>
RandomUUID(n) ==
  {<<p, UuidRest[n]>> : p \in IF n = 1 THEN {"aaaaaaaa"} ELSE Prefix8}

\* The values n consecutive calls return, the first being call number first.
RandomUUIDs(first, n) ==
  {u \in [1..n -> UNION {RandomUUID(first + j - 1) : j \in 1..n}] :
     \A j \in 1..n : u[j] \in RandomUUID(first + j - 1)}

\* uuid.slice(0, 8)
Slice8(uuid) == uuid[1]

\* The log arrays of m entries that hold n tokens in all.
RECURSIVE LogArraysOf(_, _, _)
LogArraysOf(marker, n, m) ==
  IF m = 0 THEN (IF n = 0 THEN {<<>>} ELSE {})
  ELSE UNION {{<<line>> \o rest : line \in [1..k -> {marker, "a"}],
                                  rest \in LogArraysOf(marker, n - k, m - 1)}
              : k \in 0..n}

\* The log arrays of at most MaxLines entries that hold from lo to hi tokens.
LogArrays(marker, lo, hi) ==
  UNION {LogArraysOf(marker, n, m) : n \in lo..hi, m \in 0..MaxLines}

\* The values runCode resolves with that the decoding is checked on.
DecodeInputs ==
  UNION {
    [error : {Absent, Some(Str("timeout"))},
     stdout : (IF n = 0 THEN {Absent} ELSE {})
                \cup {Some(ls) : ls \in LogArrays(RESULT_MARKER, n, n)},
     stderr : {Absent}
                \cup {Some(ls) : ls \in LogArrays(ERROR_MARKER, 0, MaxLen - n)}]
    : n \in 0..MaxLen}

\* ------------------------------------------------------------------- state
VARIABLES
  req,           \* the request fetch was called with
  pc,            \* where the request handler stands
  response,      \* the Response fetch returned, Absent before
  maxContainers, \* handleExecuteBatch: maxContainers
  batches,       \* handleExecuteBatch: batches
  round,         \* index of the batch the for loop is at (0 before)
  allResults,    \* handleExecuteBatch: allResults
  tasks,         \* the executeItem calls made so far, in call order
  sandboxIdStr,  \* handleExecute: sandboxIdStr, Absent before
  runResult,     \* decoding: the value runCode resolved with
  parsed,        \* decoding: what each handler made of runResult
  console,       \* the messages console.error was called with
  destroyed      \* the identifiers of the sessions destroy was called on

vars == <<req, pc, response, maxContainers, batches, round, allResults,
          tasks, sandboxIdStr, runResult, parsed, console, destroyed>>

handlerVars == <<maxContainers, batches, round, allResults, tasks,
                 sandboxIdStr>>
decodeVars == <<runResult, parsed>>

Body == req.json[1]

\* ------------------------------------------------------------ index.ts
\* request.headers.get("Authorization")?.replace("Bearer ", "")
ReplaceBearer(header) ==
  IF header = Absent THEN Absent
  ELSE IF \E i \in 1..Len(header) : header[i] = "Bearer "
  THEN LET i == Min({k \in 1..Len(header) : header[k] = "Bearer "})
       IN Some(SubSeq(header, 1, i - 1) \o SubSeq(header, i + 1, Len(header)))
  ELSE Some(header)

\* validateApiKey without the comparison
validateApiKeyAnyKey(apiKey) == Truthy(apiKey)

validateApiKey(apiKey) ==
  IF ~Truthy(apiKey) THEN FALSE ELSE apiKey[1] = Str(API_KEY)

MessageBody(error) == [success |-> FALSE, error |-> Some(Str(error))]

\* The TypeError a property read on null throws.
NullTypeError ==
  [isError |-> TRUE, message |-> Str("Cannot read properties of null")]

\* The catch block of fetch.
FetchCatch(thrown) ==
  Response(500, [success |-> FALSE,
                 error |-> Some(ErrorMessage(thrown,
                                             Str("Internal Server Error")))])

\* -------------------------------------------------------- executeBatch.ts
\* slice taking one element too many
SliceOneMore(array, start, end) ==
  SubSeq(array, start + 1,
         IF end + 1 < Len(array) THEN end + 1 ELSE Len(array))

\* array.slice(start, end) for 0 <= start <= end
Slice(array, start, end) ==
  SubSeq(array, start + 1, IF end < Len(array) THEN end ELSE Len(array))

\* the loop stopping before a last chunk that is not full
RECURSIVE chunkFromFullOnly(_, _, _)
chunkFromFullOnly(array, size, i) ==
  IF i < Len(array) /\ i + size <= Len(array)
  THEN <<Slice(array, i, i + size)>> \o chunkFromFullOnly(array, size, i + size)
  ELSE <<>>

\* The for loop of chunk from index i on; it terminates when size >= 1.
RECURSIVE chunkFrom(_, _, _)
chunkFrom(array, size, i) ==
  IF i < Len(array)
  THEN <<Slice(array, i, i + size)>> \o chunkFrom(array, size, i + size)
  ELSE <<>>

chunk(array, size) == chunkFrom(array, size, 0)

\* chunk never returns: i < array.length stays true when size is negative.
ChunkDiverges(array, size) == size < 0 /\ Len(array) > 0

\* body.max_containers || 10
MaxContainersOf(body) ==
  IF body.max_containers # Absent /\ body.max_containers[1] # 0
  THEN body.max_containers[1] ELSE DefaultMaxContainers

\* !body.function_id || !body.code || !body.function_name || !body.items
\* (an empty items array is truthy)
BatchFieldsMissing(body) ==
  \/ ~Truthy(body.function_id)
  \/ ~Truthy(body.code)
  \/ ~Truthy(body.function_name)
  \/ body.items = Absent

\* !body.function_id || !body.code || !body.function_name
FieldsMissing(body) ==
  \/ ~Truthy(body.function_id)
  \/ ~Truthy(body.code)
  \/ ~Truthy(body.function_name)

\* `${functionId}-${crypto.randomUUID().slice(0, 8)}`
SandboxIdOf(functionId, uuid) == functionId \o <<"-", Slice8(uuid)>>

\* env.Sandbox.idFromName(body.function_id).toString()
IdFromName(functionId) == <<"id:">> \o functionId

\* batch.map((itemHex) => executeItem(...)): every call runs up to its first
\* await, so each has its sandbox and waits for createCodeContext.
NewTasks(batch, k, functionId, uuids) ==
  [j \in 1..Len(batch) |->
     [itemHex |-> batch[j], round |-> k, pc |-> "createCodeContext",
      sandboxId |-> SandboxIdOf(functionId, uuids[j]),
      outcome |-> Absent, destroyCalls |-> 0]]

RoundTasks(ts, k) == {t \in 1..Len(ts) : ts[t].round = k}

\* Promise.race: fulfils once one call of the round has returned
PromiseRaceFulfilled(ts, k) ==
  \E t \in RoundTasks(ts, k) : ts[t].pc = "fulfilled"

\* Promise.all(batchTasks) fulfils once every call of the round has returned.
PromiseAllFulfilled(ts, k) ==
  \A t \in RoundTasks(ts, k) : ts[t].pc = "fulfilled"

\* The array Promise.all fulfils with: the outcomes in call order.
RECURSIVE BatchResults(_, _)
BatchResults(ts, k) ==
  IF ts = <<>> THEN <<>>
  ELSE (IF Head(ts).round = k THEN Head(ts).outcome ELSE <<>>)
       \o BatchResults(Tail(ts), k)

\* the round's results put in front
PushFront(results, batchResults) == batchResults \o results

\* allResults.push(...batchResults)
Push(results, batchResults) == results \o batchResults

BatchBody(results, count, cap) ==
  [results |-> results, total_execution_time_ms |-> Timestamp,
   batch_count |-> count, max_containers |-> cap]

\* ---------------------------------------------------------------- states
Init ==
  /\ req \in Requests
  /\ pc = "fetch"
  /\ response = Absent
  /\ maxContainers = 0
  /\ batches = <<>>
  /\ round = 0
  /\ allResults = <<>>
  /\ tasks = <<>>
  /\ sandboxIdStr = Absent
  /\ runResult = Absent
  /\ parsed = Absent
  /\ console = {}
  /\ destroyed = {}

Return(resp) == pc' = "done" /\ response' = Some(resp)

\* fetch up to the route handlers' first await (request.json()).
Fetch ==
  /\ pc = "fetch"
  /\ UNCHANGED handlerVars
  /\ UNCHANGED <<req, decodeVars, console>>
  /\ IF req.method = "OPTIONS"
     THEN Return(Response(200, Absent))
     ELSE IF req.pathname = "/health" /\ req.method = "GET"
     THEN Return(Response(200, [status |-> "ok"]))
     ELSE IF ~validateApiKey(ReplaceBearer(req.Authorization))
     THEN Return(Response(401, MessageBody("Unauthorized")))
     ELSE IF req.pathname = "/execute" /\ req.method = "POST"
     THEN pc' = "execute.json" /\ response' = response
     ELSE IF req.pathname = "/execute-batch" /\ req.method = "POST"
     THEN pc' = "batch.json" /\ response' = response
     ELSE Return(Response(404, MessageBody("Not Found")))
  /\ UNCHANGED destroyed

\* The continuation of handleExecuteBatch once Promise.all has fulfilled:
\* push the round's results, then map the next batch or build the response.
AfterRound(ts) ==
  LET results == Push(allResults, BatchResults(ts, round)) IN
  /\ allResults' = results
  /\ IF round < Len(batches)
     THEN /\ \E uuids \in RandomUUIDs(Len(ts) + 1, Len(batches[round + 1])) :
               tasks' = ts \o NewTasks(batches[round + 1], round + 1,
                                       Body.function_id[1], uuids)
          /\ round' = round + 1
          /\ UNCHANGED <<pc, response>>
     ELSE /\ tasks' = ts
          /\ round' = round
          /\ Return(Response(200, BatchBody(results, Len(batches),
                                            maxContainers)))

\* A call of the round has settled: its promise reactions run before any
\* other event.
Settle(ts) ==
  IF pc = "Promise.all" /\ PromiseAllFulfilled(ts, round)
  THEN AfterRound(ts)
  ELSE /\ tasks' = ts
       /\ UNCHANGED <<pc, response, round, allResults>>

\* handleExecuteBatch: request.json() rejects.
BatchJsonThrows ==
  /\ pc = "batch.json"
  /\ req.json = Absent
  /\ Return(Response(400, MessageBody("Invalid JSON in request body")))
  /\ UNCHANGED handlerVars
  /\ UNCHANGED <<req, decodeVars, console>>
  /\ UNCHANGED destroyed

\* handleExecuteBatch: the body is null, so reading body.function_id throws
\* a TypeError before the try block; the catch of fetch answers.
BatchJsonNull ==
  /\ pc = "batch.json"
  /\ req.json = Some(JsonNull)
  /\ Return(FetchCatch(NullTypeError))
  /\ console' = console \cup {"Worker error:"}
  /\ UNCHANGED handlerVars
  /\ UNCHANGED <<req, decodeVars>>
  /\ UNCHANGED destroyed

\* handleExecuteBatch: a required field is missing.
BatchInvalid ==
  /\ pc = "batch.json"
  /\ req.json # Absent
  /\ Body # JsonNull
  /\ BatchFieldsMissing(Body)
  /\ Return(Response(400, MessageBody(
       "Missing required fields: function_id, code, function_name, items")))
  /\ UNCHANGED handlerVars
  /\ UNCHANGED <<req, decodeVars, console>>
  /\ UNCHANGED destroyed

\* handleExecuteBatch: chunk loops without end.  With size < 0 the index of
\* the for loop only decreases, so `i < array.length` stays true: the call
\* never returns, awaits nothing and nothing can interrupt it, so no step of
\* the handler follows the one that enters it.
BatchChunkDiverges ==
  /\ pc = "batch.json"
  /\ req.json # Absent
  /\ Body # JsonNull
  /\ ~BatchFieldsMissing(Body)
  /\ ChunkDiverges(Body.items[1], MaxContainersOf(Body))
  /\ pc' = "chunk"
  /\ maxContainers' = MaxContainersOf(Body)
  /\ UNCHANGED <<req, response, batches, round, allResults, tasks,
                 sandboxIdStr, decodeVars, console>>
  /\ UNCHANGED destroyed

\* handleExecuteBatch from validation up to the first Promise.all, or up to
\* the response when there is no batch.
BatchDispatch ==
  /\ pc = "batch.json"
  /\ req.json # Absent
  /\ Body # JsonNull
  /\ ~BatchFieldsMissing(Body)
  /\ ~ChunkDiverges(Body.items[1], MaxContainersOf(Body))
  /\ LET cap == MaxContainersOf(Body)
         bs == chunk(Body.items[1], cap)
     IN /\ maxContainers' = cap
        /\ batches' = bs
        /\ allResults' = <<>>
        /\ IF bs = <<>>
           THEN /\ Return(Response(200, BatchBody(<<>>, 0, cap)))
                /\ UNCHANGED <<round, tasks>>
           ELSE /\ pc' = "Promise.all"
                /\ round' = 1
                /\ \E uuids \in RandomUUIDs(1, Len(bs[1])) :
                     tasks' = NewTasks(bs[1], 1, Body.function_id[1], uuids)
                /\ response' = response
  /\ UNCHANGED <<req, sandboxIdStr, decodeVars, console>>
  /\ UNCHANGED destroyed

\* ---------------------------------------------------------- executeItem
Awaiting(t, where) == t \in 1..Len(tasks) /\ tasks[t].pc = where

\* sandbox.createCodeContext resolves: the call builds the code and awaits
\* sandbox.runCode.
CtxReturns(t) ==
  /\ Awaiting(t, "createCodeContext")
  /\ tasks' = [tasks EXCEPT ![t].pc = "runCode"]
  /\ UNCHANGED <<req, pc, response, maxContainers, batches, round,
                 allResults, sandboxIdStr, decodeVars, console>>
  /\ UNCHANGED destroyed

\* sandbox.createCodeContext rejects: the await is outside the try, so the
\* promise of executeItem rejects; Promise.all rejects with it and the catch
\* of handleExecuteBatch answers.
CtxThrows(t, thrown) ==
  /\ Awaiting(t, "createCodeContext")
  /\ tasks' = [tasks EXCEPT ![t].pc = "rejected"]
  /\ IF pc = "Promise.all" /\ tasks[t].round = round
     THEN /\ Return(Response(500, [success |-> FALSE,
               error |-> Some(ErrorMessage(thrown,
                                           Str("Batch execution failed")))]))
          /\ console' = console \cup {"Batch execution error:"}
     ELSE UNCHANGED <<pc, response, console>>
  /\ UNCHANGED <<req, maxContainers, batches, round, allResults,
                 sandboxIdStr, decodeVars>>
  /\ UNCHANGED destroyed

\* executeItem calling destroy without awaiting it
RunReturnsNoAwait(t, value) ==
  /\ Awaiting(t, "runCode")
  /\ Settle([tasks EXCEPT
       ![t].outcome = Some(ExecuteItemParse(value, tasks[t].sandboxId)),
       ![t].pc = "fulfilled",
       ![t].destroyCalls = @ + 1])
  /\ UNCHANGED <<req, maxContainers, batches, sandboxIdStr, decodeVars,
                 console>>
  /\ destroyed' = destroyed \cup {tasks[t].sandboxId}

\* sandbox.runCode resolves: parse, then the finally block calls destroy.
RunReturns(t, value) ==
  /\ Awaiting(t, "runCode")
  /\ tasks' = [tasks EXCEPT
       ![t].outcome = Some(ExecuteItemParse(value, tasks[t].sandboxId)),
       ![t].pc = "destroy",
       ![t].destroyCalls = @ + 1]
  /\ UNCHANGED <<req, pc, response, maxContainers, batches, round,
                 allResults, sandboxIdStr, decodeVars, console>>
  /\ destroyed' = destroyed \cup {tasks[t].sandboxId}

\* sandbox.runCode rejects: the catch block, then the finally block.
RunThrows(t, thrown) ==
  /\ Awaiting(t, "runCode")
  /\ tasks' = [tasks EXCEPT
       ![t].outcome = Some(ExecuteItemCatch(thrown, tasks[t].sandboxId)),
       ![t].pc = "destroy",
       ![t].destroyCalls = @ + 1]
  /\ UNCHANGED <<req, pc, response, maxContainers, batches, round,
                 allResults, sandboxIdStr, decodeVars, console>>
  /\ destroyed' = destroyed \cup {tasks[t].sandboxId}

\* sandbox.destroy resolves: executeItem returns its outcome.
DestroyReturns(t) ==
  /\ Awaiting(t, "destroy")
  /\ Settle([tasks EXCEPT ![t].pc = "fulfilled"])
  /\ UNCHANGED <<req, maxContainers, batches, sandboxIdStr, decodeVars,
                 console>>
  /\ UNCHANGED destroyed

\* the rejection of sandbox.destroy leaving executeItem
DestroyThrowsEscapes(t) ==
  /\ Awaiting(t, "destroy")
  /\ tasks' = [tasks EXCEPT ![t].pc = "rejected"]
  /\ IF pc = "Promise.all" /\ tasks[t].round = round
     THEN /\ Return(Response(500, MessageBody("Batch execution failed")))
          /\ console' = console \cup {"Batch execution error:"}
     ELSE UNCHANGED <<pc, response, console>>
  /\ UNCHANGED <<req, maxContainers, batches, round, allResults,
                 sandboxIdStr, decodeVars>>
  /\ UNCHANGED destroyed

\* sandbox.destroy rejects: logged, and executeItem returns its outcome.
DestroyThrows(t) ==
  /\ Awaiting(t, "destroy")
  /\ console' = console \cup {"Failed to destroy sandbox"}
  /\ Settle([tasks EXCEPT ![t].pc = "fulfilled"])
  /\ UNCHANGED <<req, maxContainers, batches, sandboxIdStr, decodeVars>>
  /\ UNCHANGED destroyed

\* -------------------------------------------------------- handleExecute
ExecuteJsonThrows ==
  /\ pc = "execute.json"
  /\ req.json = Absent
  /\ Return(Response(400, MessageBody("Invalid JSON in request body")))
  /\ UNCHANGED handlerVars
  /\ UNCHANGED <<req, decodeVars, console>>
  /\ UNCHANGED destroyed

\* The body is null: body.function_id throws before the try block.
ExecuteJsonNull ==
  /\ pc = "execute.json"
  /\ req.json = Some(JsonNull)
  /\ Return(FetchCatch(NullTypeError))
  /\ console' = console \cup {"Worker error:"}
  /\ UNCHANGED handlerVars
  /\ UNCHANGED <<req, decodeVars>>
  /\ UNCHANGED destroyed

ExecuteInvalid ==
  /\ pc = "execute.json"
  /\ req.json # Absent
  /\ Body # JsonNull
  /\ FieldsMissing(Body)
  /\ Return(Response(400, MessageBody(
       "Missing required fields: function_id, code, function_name")))
  /\ UNCHANGED handlerVars
  /\ UNCHANGED <<req, decodeVars, console>>
  /\ UNCHANGED destroyed

\* From validation up to the await of createCodeContext.
ExecuteStart ==
  /\ pc = "execute.json"
  /\ req.json # Absent
  /\ Body # JsonNull
  /\ ~FieldsMissing(Body)
  /\ sandboxIdStr' = Some(IdFromName(Body.function_id[1]))
  /\ pc' = "execute.createCodeContext"
  /\ UNCHANGED <<req, response, maxContainers, batches, round, allResults,
                 tasks, decodeVars, console>>
  /\ UNCHANGED destroyed

\* env.Sandbox.idFromName or getSandbox throws: inside the try block.
ExecuteGetSandboxThrows(thrown) ==
  /\ pc = "execute.json"
  /\ req.json # Absent
  /\ Body # JsonNull
  /\ ~FieldsMissing(Body)
  /\ Return(HandleExecuteCatch(thrown))
  /\ console' = console \cup {"Execution error:"}
  /\ UNCHANGED <<req, handlerVars, decodeVars>>
  /\ UNCHANGED destroyed

ExecuteCtxReturns ==
  /\ pc = "execute.createCodeContext"
  /\ pc' = "execute.runCode"
  /\ UNCHANGED <<req, response, handlerVars, decodeVars, console>>
  /\ UNCHANGED destroyed

ExecuteCtxThrows(thrown) ==
  /\ pc = "execute.createCodeContext"
  /\ Return(HandleExecuteCatch(thrown))
  /\ UNCHANGED <<req, handlerVars, decodeVars>>
  /\ console' = console \cup {"Execution error:"}
  /\ UNCHANGED destroyed

\* handleExecute destroying its session once the run has returned
ExecuteRunReturnsDestroys(value) ==
  /\ pc = "execute.runCode"
  /\ Return(HandleExecuteParse(value, sandboxIdStr[1]))
  /\ destroyed' = destroyed \cup {sandboxIdStr[1]}
  /\ UNCHANGED <<req, handlerVars, decodeVars, console>>

ExecuteRunReturns(value) ==
  /\ pc = "execute.runCode"
  /\ Return(HandleExecuteParse(value, sandboxIdStr[1]))
  /\ UNCHANGED <<req, handlerVars, decodeVars, console>>
  /\ UNCHANGED destroyed

ExecuteRunThrows(thrown) ==
  /\ pc = "execute.runCode"
  /\ Return(HandleExecuteCatch(thrown))
  /\ UNCHANGED <<req, handlerVars, decodeVars>>
  /\ console' = console \cup {"Execution error:"}
  /\ UNCHANGED destroyed

\* ------------------------------------------------------------------ Spec
Next ==
  \/ Fetch
  \/ BatchJsonThrows
  \/ BatchJsonNull
  \/ BatchInvalid
  \/ BatchChunkDiverges
  \/ BatchDispatch
  \/ \E t \in 1..Len(tasks) : CtxReturns(t)
  \/ \E t \in 1..Len(tasks), thrown \in Thrown : CtxThrows(t, thrown)
  \/ \E t \in 1..Len(tasks) :
       \E value \in RunValues(tasks[t].itemHex) : RunReturns(t, value)
  \/ \E t \in 1..Len(tasks), thrown \in RunThrown : RunThrows(t, thrown)
  \/ \E t \in 1..Len(tasks) : DestroyReturns(t)
  \/ \E t \in 1..Len(tasks) : DestroyThrows(t)
  \/ ExecuteJsonThrows
  \/ ExecuteJsonNull
  \/ ExecuteInvalid
  \/ ExecuteStart
  \/ \E thrown \in Thrown : ExecuteGetSandboxThrows(thrown)
  \/ ExecuteCtxReturns
  \/ \E thrown \in Thrown : ExecuteCtxThrows(thrown)
  \/ \E value \in RunValues("01") \cup RunValues("02") \cup RunValues("03") :
       ExecuteRunReturns(value)
  \/ \E thrown \in Thrown : ExecuteRunThrows(thrown)

Spec == Init /\ [][Next]_vars

\* Every pending step is eventually taken: the code that is running goes
\* on, and every runtime call that is awaited eventually returns or throws.
SpecFair == Spec /\ WF_vars(Next)

\* --------------------------------------------------- decoding on its own
DecodeSandboxId == SandboxIdOf(Str("fn"), <<"aaaaaaaa", UuidRest[1]>>)

InitDecode ==
  /\ req = [method |-> "POST", pathname |-> "/execute-batch",
            Authorization |-> <<"Bearer ", "sk_good">>, json |-> Absent]
  /\ pc = "decode"
  /\ response = Absent
  /\ maxContainers = 0
  /\ batches = <<>>
  /\ round = 0
  /\ allResults = <<>>
  /\ tasks = <<>>
  /\ sandboxIdStr = Absent
  /\ runResult \in DecodeInputs
  /\ parsed = [item |-> Absent, execute |-> Absent]
  /\ console = {}
  /\ destroyed = {}

\* runCode has resolved with runResult: executeItem parses it, and so does
\* handleExecute.
Decode ==
  /\ pc = "decode"
  /\ parsed.item = Absent
  /\ parsed' =
       [item |-> Some(ExecuteItemParse(runResult, DecodeSandboxId)),
        execute |-> Some(HandleExecuteParse(runResult,
                                            IdFromName(Str("fn"))))]
  /\ UNCHANGED <<req, pc, response, handlerVars, runResult, console>>
  /\ UNCHANGED destroyed

NextDecode == Decode

SpecDecode == InitDecode /\ [][NextDecode]_vars

\* ================================================================ claims
BatchRequest == req.pathname = "/execute-batch" /\ req.method = "POST"

\* handleExecuteBatch has got past validation and chunk.
Dispatched == BatchRequest /\ pc \in {"Promise.all", "done"} /\ maxContainers # 0

BatchOK ==
  /\ Dispatched
  /\ response # Absent
  /\ response[1].status = 200

Items == Body.items[1]

TasksOf(itemHex) == {t \in 1..Len(tasks) : tasks[t].itemHex = itemHex}

\* The calls that hold a session: obtained, and destroy has not returned.
Holding ==
  {t \in 1..Len(tasks) :
     tasks[t].pc \in {"createCodeContext", "runCode", "destroy", "rejected"}}

RECURSIVE Flatten(_)
Flatten(seqs) == IF seqs = <<>> THEN <<>> ELSE Head(seqs) \o Flatten(Tail(seqs))

CeilDiv(n, c) == (n + c - 1) \div c

\* C1 - order preservation: a 200 response of a batch carries exactly one
\* result per item, and results[i] is the outcome the executeItem call on
\* items[i] returned, whatever the order in which the calls completed.
C1_OrderPreservation ==
  BatchOK =>
    LET results == response[1].body.results IN
    /\ Len(results) = Len(Items)
    /\ \A i \in 1..Len(Items) :
         /\ Cardinality(TasksOf(Items[i])) = 1
         /\ \A t \in TasksOf(Items[i]) : tasks[t].outcome = Some(results[i])
         /\ results[i].success => results[i].result = Some(Str(Items[i]))

\* Three items in two rounds have been answered, with different outcomes.
C1_Witness ==
  /\ BatchOK
  /\ Len(Items) = 3
  /\ Len(batches) = 2
  /\ response[1].body.results[1].success
  /\ response[1].body.results[2].error = Some(Str("bad"))
  /\ response[1].body.results[3].error =
       Some(Str("Failed to extract result from output"))

\* C2 - concurrency cap: the calls holding a session never outnumber
\* maxContainers; without a positive cap no session is obtained.
C2_ConcurrencyCap ==
  Cardinality(Holding) <= (IF maxContainers >= 1 THEN maxContainers ELSE 0)

\* A later round runs at the cap.
C2_Witness ==
  /\ Dispatched
  /\ round >= 2
  /\ Cardinality(Holding) = maxContainers

\* C8 - round partition: chunk splits the items into consecutive rounds
\* whose concatenation is the items array, every round but the last has
\* exactly maxContainers items and the last between 1 and maxContainers, so
\* batch_count is ceil(N / maxContainers); without items there is no round,
\* no result and no session.
C8_RoundPartition ==
  /\ (Dispatched /\ maxContainers >= 1) =>
       /\ Flatten(batches) = Items
       /\ \A k \in 1..Len(batches) :
            /\ k < Len(batches) => Len(batches[k]) = maxContainers
            /\ Len(batches[k]) \in 1..maxContainers
       /\ Len(batches) = CeilDiv(Len(Items), maxContainers)
       /\ BatchOK =>
            response[1].body.batch_count = CeilDiv(Len(Items), maxContainers)
  /\ (Dispatched /\ Len(Items) = 0) =>
       /\ batches = <<>>
       /\ tasks = <<>>
       /\ BatchOK
       /\ response[1].body.results = <<>>
       /\ response[1].body.batch_count = 0

\* Three items under a cap of two were answered as two rounds of 2 and 1.
C8_Witness ==
  /\ BatchOK
  /\ Len(Items) = 3
  /\ maxContainers = 2
  /\ Len(batches[1]) = 2
  /\ Len(batches[2]) = 1
  /\ response[1].body.batch_count = 2

\* C3 - full batch isolation: once a dispatched batch has been answered,
\* every item has been executed and its outcome is among the results,
\* however another item failed.
C3_FullBatchIsolation ==
  (Dispatched /\ pc = "done") =>
    /\ response[1].status = 200
    /\ \A i \in 1..Len(Items) :
         \E t \in TasksOf(Items[i]) :
           /\ tasks[t].outcome # Absent
           /\ \E j \in 1..Len(response[1].body.results) :
                Some(response[1].body.results[j]) = tasks[t].outcome

\* C4 - teardown guarantee: an executeItem call that has settled has called
\* destroy on its session exactly once, and no call calls it twice.
C4_TeardownExactlyOnce ==
  \A t \in 1..Len(tasks) :
    /\ tasks[t].destroyCalls <= 1
    /\ tasks[t].pc \in {"fulfilled", "rejected"} => tasks[t].destroyCalls = 1

\* C5 - executeItem never raises: no call ends rejected, and a call that
\* has an outcome without a result has success = false and an error.
C5_NeverRaises ==
  \A t \in 1..Len(tasks) :
    /\ tasks[t].pc # "rejected"
    /\ (tasks[t].outcome # Absent /\ tasks[t].outcome[1].result = Absent) =>
         /\ ~tasks[t].outcome[1].success
         /\ tasks[t].outcome[1].error # Absent

\* C6 - an authorized, well-formed /execute-batch request is answered with
\* status 200 whatever the outcomes of its items.
C6_BatchStatus200 ==
  (/\ BatchRequest
   /\ validateApiKey(ReplaceBearer(req.Authorization))
   /\ req.json # Absent
   /\ Body # JsonNull
   /\ ~BatchFieldsMissing(Body)
   /\ response # Absent) => response[1].status = 200

\* C7 - isolation: no two executeItem calls of a batch use the same sandbox
\* identifier.
C7_Isolation ==
  \A t1, t2 \in 1..Len(tasks) :
    t1 # t2 => tasks[t1].sandboxId # tasks[t2].sandboxId

\* ------------------------------------------------------------- decoding
Stdout == JoinOrEmpty(runResult.stdout)
Stderr == JoinOrEmpty(runResult.stderr)

\* s holds a well-formed sentinel: two markers on one line.
HasSentinel(s, marker) ==
  \E i, j \in 1..Len(s) :
    /\ i < j
    /\ s[i] = marker
    /\ s[j] = marker
    /\ \A k \in i..j : s[k] # NL

\* msg is what stands between two markers of s.
Between(s, marker, msg) ==
  \E i, j \in 1..Len(s) :
    /\ i < j
    /\ s[i] = marker
    /\ s[j] = marker
    /\ msg = SubSeq(s, i + 1, j - 1)

ProtocolError == Some(Str("Failed to extract result from output"))

\* The decode rules on an outcome record o.
DecodePrecedence(o) ==
  /\ runResult.error # Absent =>
       /\ ~o.success
       /\ o.result = Absent
       /\ o.error = runResult.error
  /\ (runResult.error = Absent /\ Includes(Stderr, ERROR_MARKER)) =>
       /\ ~o.success
       /\ o.result = Absent
       /\ o.error # Absent
       /\ o.error # ProtocolError
       /\ HasSentinel(Stderr, ERROR_MARKER) =>
            Between(Stderr, ERROR_MARKER, o.error[1])
  /\ (runResult.error = Absent /\ ~Includes(Stderr, ERROR_MARKER)) =>
       /\ o.success <=> HasSentinel(Stdout, RESULT_MARKER)
       /\ o.success => /\ o.error = Absent
                       /\ o.result # Absent
                       /\ Between(Stdout, RESULT_MARKER, o.result[1])
       /\ ~o.success => o.error = ProtocolError

\* C9 - decode precedence, in executeItem and in handleExecute: a
\* runtime-reported error is the outcome's error whatever the output holds;
\* otherwise an error marker in stderr makes the outcome a failure, with the
\* message of the sentinel when it is well-formed, even when stdout holds a
\* well-formed result sentinel; only otherwise does stdout decide.
C9_DecodePrecedence ==
  /\ parsed.item # Absent => DecodePrecedence(parsed.item[1])
  /\ parsed.execute # Absent =>
       /\ DecodePrecedence(parsed.execute[1].body)
       /\ parsed.execute[1].status =
            (IF parsed.execute[1].body.success THEN 200 ELSE 500)

\* Both sentinels are there and both handlers answered with the failure.
C9_Witness ==
  /\ runResult.error = Absent
  /\ HasSentinel(Stderr, ERROR_MARKER)
  /\ HasSentinel(Stdout, RESULT_MARKER)
  /\ parsed.item # Absent
  /\ parsed.execute # Absent
  /\ ~parsed.item[1].success
  /\ parsed.item[1].error = Some(Str("a"))

\* The outcome record o is the protocol failure with the raw output.
ProtocolFailure(o) ==
  /\ ~o.success
  /\ o.result = Absent
  /\ o.error = ProtocolError
  /\ o.stdout = Some(Stdout)
  /\ o.stderr = Some(Stderr)

EndpointRequest ==
  /\ req.pathname \in {"/execute", "/execute-batch"}
  /\ req.method # "OPTIONS"

\* The bearer credential of the request: what follows the scheme.
Credential ==
  IF req.Authorization = Absent THEN Absent
  ELSE IF Head(req.Authorization) = "Bearer "
  THEN Tail(req.Authorization)
  ELSE req.Authorization

Unauthorized == Credential = Absent \/ Credential # <<API_KEY>>

\* No route handler has run: no body parsed, no session, no context, no
\* code run.
NoDispatch ==
  /\ pc \in {"fetch", "done"}
  /\ tasks = <<>>
  /\ batches = <<>>
  /\ maxContainers = 0
  /\ sandboxIdStr = Absent

Authorized == validateApiKey(ReplaceBearer(req.Authorization))

ExecuteRequest == req.pathname = "/execute" /\ req.method = "POST"

\* The body cannot be parsed, or a field its endpoint requires is not in it.
Malformed ==
  \/ req.json = Absent
  \/ Body = JsonNull
  \/ BatchRequest /\ BatchFieldsMissing(Body)
  \/ ExecuteRequest /\ FieldsMissing(Body)

\* C12 - malformed requests are rejected before dispatch: an authorized
\* POST to /execute or /execute-batch whose body cannot be parsed or lacks a
\* required field is answered 400 with success = false, and no session is
\* obtained and no code is run for it.
C12_MalformedRejected ==
  ((BatchRequest \/ ExecuteRequest) /\ Authorized /\ Malformed) =>
    /\ tasks = <<>>
    /\ sandboxIdStr = Absent
    /\ pc = "done" =>
         /\ response[1].status = 400
         /\ ~response[1].body.success

\* An authorized, well-formed batch request whose max_containers is an
\* integer that is not positive.
NonPositiveCap ==
  /\ BatchRequest
  /\ Authorized
  /\ ~Malformed
  /\ Body.max_containers # Absent
  /\ Body.max_containers[1] <= 0

\* C13 - a batch request whose max_containers is zero or negative is
\* rejected with status 400 before dispatch: the handler never gets past
\* validation, no round is formed and no session is obtained.
C13_NonPositiveCapRejected ==
  NonPositiveCap =>
    /\ pc \in {"fetch", "batch.json", "done"}
    /\ batches = <<>>
    /\ tasks = <<>>
    /\ pc = "done" => response[1].status = 400

\* ----------------------------------------------------- single execution
\* handleExecute has answered an authorized, well-formed request.
ExecuteAnswered ==
  /\ ExecuteRequest
  /\ Authorized
  /\ ~Malformed
  /\ pc = "done"

\* C14 - single-execution status mapping: an authorized, well-formed
\* /execute request is answered 200 exactly when the outcome has
\* success = true, and 500 on every failure: runtime error, error sentinel,
\* missing result marker, or an exception while the session is obtained,
\* the context is created or the code is run.
C14_ExecuteStatus ==
  ExecuteAnswered =>
    /\ response[1].status = 200 <=> response[1].body.success
    /\ ~response[1].body.success => response[1].status = 500

\* createCodeContext or runCode threw and the request was answered 500.
C14_Witness ==
  /\ ExecuteAnswered
  /\ sandboxIdStr # Absent
  /\ response[1].status = 500
  /\ response[1].body.error = Some(Str("boom"))
  /\ "Execution error:" \in console

\* ------------------------------------------------------ outcome records
\* A field is present when the record sent carries it (an empty string is
\* a value).
WellFormedOutcome(o) ==
  /\ o.success => (o.result # Absent /\ o.error = Absent)
  /\ ~o.success => (o.error # Absent /\ o.result = Absent)

\* C15 - outcome well-formedness: every outcome executeItem returns and
\* every outcome handleExecute answers with has exactly one of result and
\* error: result and no error when success = true, error and no result
\* when success = false.
C15_OutcomeWellFormed ==
  /\ \A t \in 1..Len(tasks) :
       tasks[t].outcome # Absent => WellFormedOutcome(tasks[t].outcome[1])
  /\ ExecuteAnswered => WellFormedOutcome(response[1].body)
  /\ BatchOK =>
       \A i \in 1..Len(response[1].body.results) :
         WellFormedOutcome(response[1].body.results[i])

\* A batch was answered with a success, a failure decoded from the output
\* and a failure from an exception of runCode.
C15_Witness ==
  /\ BatchOK
  /\ Len(Items) = 3
  /\ response[1].body.results[1].success
  /\ response[1].body.results[1].result = Some(Str("01"))
  /\ response[1].body.results[2].error = Some(Str("bad"))
  /\ response[1].body.results[3].error = Some(Str("boom"))

\* ---------------------------------------------------------------- rounds
\* C16 - round barrier: an executeItem call exists for an item of a round
\* (a session obtained, a run issued) only when every call of every earlier
\* round has returned its outcome, success or failure; the calls made so
\* far are those of the rounds up to the current one.
C16_RoundBarrier ==
  /\ \A t \in 1..Len(tasks) : tasks[t].round \in 1..round
  /\ \A t1, t2 \in 1..Len(tasks) :
       tasks[t1].round < tasks[t2].round =>
         /\ tasks[t1].pc = "fulfilled"
         /\ tasks[t1].outcome # Absent

\* The second round is running after a first round of two items of which
\* one failed.
C16_Witness ==
  /\ Dispatched
  /\ round = 2
  /\ Len(batches[1]) = 2
  /\ \E t \in 1..Len(tasks) :
       tasks[t].round = 2 /\ tasks[t].pc = "runCode"
  /\ \E t \in 1..Len(tasks) :
       tasks[t].round = 1 /\ ~tasks[t].outcome[1].success
  /\ \E t \in 1..Len(tasks) :
       tasks[t].round = 1 /\ tasks[t].outcome[1].success

\* C17 - no entity outlives a batch request: once handleExecuteBatch has
\* returned its response, 200 or 500, no executeItem call of the request
\* is still in progress and every session obtained for it has had its
\* destroy call.
C17_NothingOutlivesBatch ==
  (Dispatched /\ pc = "done") =>
    \A t \in 1..Len(tasks) :
      /\ tasks[t].pc \in {"fulfilled", "rejected"}
      /\ tasks[t].destroyCalls = 1

\* ------------------------------------------------------- error message
Markers(s, marker) == {k \in 1..Len(s) : s[k] = marker}

\* The text between the first marker of s and the first marker after it.
FirstNonGreedy(s, marker) ==
  LET i == Min(Markers(s, marker))
      j == Min(Markers(s, marker) \ {i})
  IN SubSeq(s, i + 1, j - 1)

\* C18 - error-message extraction, in executeItem and in handleExecute:
\* with no runtime error, when stderr holds the error sentinel (an opening
\* and a closing marker) the outcome's error is the text between the first
\* marker and the first marker after it, also when stderr holds more than
\* one sentinel pair or the message spans several lines.
C18_ErrorMessageExtraction ==
  (/\ runResult.error = Absent
   /\ Cardinality(Markers(Stderr, ERROR_MARKER)) >= 2
   /\ parsed.item # Absent) =>
     /\ parsed.item[1].error =
          Some(FirstNonGreedy(Stderr, ERROR_MARKER))
     /\ parsed.execute[1].body.error =
          Some(FirstNonGreedy(Stderr, ERROR_MARKER))

\* -------------------------------------------------------------- teardown
\* What the step in which destroy threw for call t leaves behind: the call
\* has returned the outcome it had computed, the other calls are as they
\* were, and the handler goes on as after any returned call - it waits on,
\* starts the next round or answers 200 with that outcome among the
\* results.
SwallowedBy(t) ==
  /\ tasks[t].outcome # Absent
  /\ tasks'[t].pc = "fulfilled"
  /\ tasks'[t].outcome = tasks[t].outcome
  /\ \A u \in 1..Len(tasks) : u # t => tasks'[u] = tasks[u]
  /\ "Failed to destroy sandbox" \in console'
  /\ "Batch execution error:" \notin console' \ console
  /\ pc = "Promise.all" =>
       \/ pc' = "Promise.all" /\ response' = Absent
       \/ /\ pc' = "done"
          /\ response'[1].status = 200
          /\ \E i \in 1..Len(response'[1].body.results) :
               Some(response'[1].body.results[i]) = tasks[t].outcome
  /\ (pc = "Promise.all" /\ PromiseAllFulfilled(tasks', tasks[t].round)) =>
       \E i \in 1..Len(allResults') : Some(allResults'[i]) = tasks[t].outcome

\* C19 - a teardown failure is swallowed: when destroy throws for a batch
\* item, executeItem returns the outcome computed before teardown, with its
\* success flag, result and error unchanged, and the failure reaches
\* neither the round nor the batch.
C19_TeardownSwallowed ==
  [][\A t \in 1..Len(tasks) : DestroyThrows(t) => SwallowedBy(t)]_vars

\* The teardown of the only item of a batch failed, and the batch was
\* answered 200 with the success that item had computed.
C19_Witness ==
  /\ BatchOK
  /\ Len(Items) = 1
  /\ "Failed to destroy sandbox" \in console
  /\ response[1].body.results[1].success
  /\ response[1].body.results[1].result = Some(Str("01"))
  /\ tasks[1].pc = "fulfilled"
  /\ tasks[1].outcome = Some(response[1].body.results[1])

\* ---------------------------------------------------------------- timing
Timed(o) ==
  /\ o.execution_time_ms # Absent
  /\ o.started_at # Absent
  /\ o.completed_at # Absent

\* C20 - timing on every outcome: every outcome of an execution, on the
\* success path and on every failure path, as a batch item (executeItem)
\* and as a standalone call (handleExecute), carries execution_time_ms,
\* started_at and completed_at.
C20_TimingOnEveryOutcome ==
  /\ \A t \in 1..Len(tasks) :
       tasks[t].outcome # Absent => Timed(tasks[t].outcome[1])
  /\ ExecuteAnswered => Timed(response[1].body)

BatchEntered ==
  /\ BatchRequest
  /\ Authorized
  /\ ~Malformed
  /\ pc = "batch.json"

\* C22 - batch termination: for an authorized, well-formed /execute-batch
\* request, whatever the number of items and the integer max_containers,
\* when every runtime call eventually returns or throws,
\* handleExecuteBatch eventually returns a response.
C22_BatchTermination == BatchEntered ~> (pc = "done" /\ response # Absent)

\* ------------------------------------------------------ teardown ordering
\* The destroy call of call t has finished: it was made and is no longer
\* awaited.
DestroyFinished(ts, t) ==
  /\ ts[t].destroyCalls = 1
  /\ ts[t].pc = "fulfilled"

\* C23 - teardown ordering: in every step, a batch item's destroy is called
\* only as its run call returns or throws, the outcome being computed, and
\* is then awaited; the executeItem call returns only out of that await;
\* results are pushed at the round join only when the destroy call of every
\* item of the round has finished; and calls of a next round are made only
\* when the destroy call of every call made before has finished.
C23_TeardownOrdering ==
  [][/\ \A t \in 1..Len(tasks) :
         /\ tasks'[t].destroyCalls # tasks[t].destroyCalls =>
              /\ tasks[t].pc = "runCode"
              /\ tasks'[t].pc = "destroy"
              /\ tasks'[t].outcome # Absent
              /\ tasks[t].sandboxId \in destroyed'
         /\ (tasks'[t].pc = "fulfilled" /\ tasks[t].pc # "fulfilled") =>
              /\ tasks[t].pc = "destroy"
              /\ tasks'[t].outcome = tasks[t].outcome
         /\ Len(tasks') > Len(tasks) => DestroyFinished(tasks', t)
     /\ Len(allResults') > Len(allResults) =>
          \A t \in RoundTasks(tasks', round) : DestroyFinished(tasks', t)
    ]_vars

\* The second round has just been started: the two calls of the first
\* round have returned with their sessions destroyed and both results are
\* pushed, the call of the second round has not run yet.
C23_Witness ==
  /\ Dispatched
  /\ round = 2
  /\ Len(tasks) = 3
  /\ DestroyFinished(tasks, 1)
  /\ DestroyFinished(tasks, 2)
  /\ {tasks[1].sandboxId, tasks[2].sandboxId} \subseteq destroyed
  /\ Len(allResults) = 2
  /\ tasks[3].pc = "createCodeContext"
  /\ tasks[3].destroyCalls = 0

====
